---- MODULE Spec2Model ----
(***************************************************************************)
(* The data marketplace's two persistent subsystems: the content-addressed *)
(* dataset store (services/ipfs_mimic.py) and the escrow transaction       *)
(* ledger (services/blockchain_ledger.py), together with the request       *)
(* handlers of routes/transactions.py that drive the ledger.               *)
(*                                                                         *)
(* Money is counted in hundredths (99.99 is 9999).  A file is its parsed   *)
(* JSON content; a key a dict does not hold has the value NoTime/NoText.   *)
(* A digest is a table that is injective on the blobs of the model.        *)
(***************************************************************************)
EXTENDS Integers, Sequences, FiniteSets, TLC

\* ------------------------------------------------------------- bounds
\* The transactions file holds at most MaxTx records.
MaxTx == 2

\* ------------------------------------------------------------ domains
\* what datetime.utcnow() returns: two instants, so that two calls may read
\* the same instant or different ones
Instants == {0, 1}
NoTime == -1
NoText == "none"
Buyers == {"bob", "carol"}
Blobs == {<<1>>, <<1, 2>>}

\* hashlib.sha256(data_bytes).hexdigest() on the two blobs of the model and
\* on the empty file
compute_cid(data_bytes) ==
    IF data_bytes = <<>>
    THEN "e3b0c44298fc1c149afbf4c8996fb92427ae41e4649b934ca495991b7852b855"
    ELSE IF data_bytes = <<1>>
    THEN "4bf5122f344554c53bde2ebb8cd2b7e3d1600ad631c385a5d7cce23c7785459a"
    ELSE "a12871fee210fb8619291eaea194581cbd2531e4b23759d225f6806923f63222"

\* the bytes a call returns, as they are written down in `last`
hex(data_bytes) ==
    IF data_bytes = <<>> THEN ""
    ELSE IF data_bytes = <<1>> THEN "01"
    ELSE "0102"

\* the first two seed datasets of routes/marketplace.py: cids that start
\* with "seed", priced 99.99 and 49.99
SeedCids == {"seed0001aaaaaaaaaaaaaaaaaaaaaaaaaaaaaaaaaaaaaaaaaaaaaaaaaaaaaaaa",
             "seed0002bbbbbbbbbbbbbbbbbbbbbbbbbbbbbbbbbbbbbbbbbbbbbbbbbbbbbbbb"}

\* get_seed_datasets(): the record of a seed dataset
seed_dataset(cid) ==
    IF cid = "seed0001aaaaaaaaaaaaaaaaaaaaaaaaaaaaaaaaaaaaaaaaaaaaaaaaaaaaaaaa"
    THEN [price |-> 9999,
          uploader |-> "0x742d35Cc6634C0532925a3b8D4C0C8b3C2e1e416",
          cid |-> cid, file_size |-> 598000, stored_at |-> NoTime]
    ELSE [price |-> 4999,
          uploader |-> "0x8f3B9C1d4E2A5F6c7D8E9F0A1B2C3D4E5F6A7B8C",
          cid |-> cid, file_size |-> 450000, stored_at |-> NoTime]

\* request.cid of a purchase: a seed dataset, a stored object, or a cid
\* that names nothing
Cids == SeedCids \cup {compute_cid(b) : b \in Blobs}

\* what an uploader hands to store_file: the price and the uploader are the
\* keys the ledger's callers read
Metadatas == [price : {0, 5000}, uploader : {"alice", "bob"}]

\* request.amount (PurchaseRequest.amount: float, ge=0)
Amounts == {0, 9999}
\* payment_amount of /pay and of complete_transaction (any float)
PaymentAmounts == {-1, 0, 1}

VARIABLES
    now,            \* datetime.utcnow()
    datasets,       \* DATASETS_PATH/<cid>.bin : the bytes of each file
    metadata,       \* METADATA_PATH/<cid>.json : the dict of each file
    transactions,   \* LEDGER_PATH/transactions.json : a list of dicts
    escrow,         \* LEDGER_PATH/escrow.json : a dict tx_id -> dict
    procs,          \* the request handlers in progress, one per worker
    last            \* the call that made the last step, and what it returned

vars == <<now, datasets, metadata, transactions, escrow, procs, last>>

\* --------------------------------------------------------- the store
\* metadata_enhanced giving way to the keys the caller supplies
metadata_enhanced_caller_first(file_bytes, md, t) ==
    md @@ [cid |-> compute_cid(file_bytes), file_size |-> Len(file_bytes),
           stored_at |-> t]

\* metadata_enhanced of store_file: {**metadata, "cid": ..., "file_size":
\* ..., "stored_at": ...}, where a key written later replaces the caller's
\* (f @@ g takes f's value for a key both have)
metadata_enhanced(file_bytes, md, t) ==
    [cid |-> compute_cid(file_bytes), file_size |-> Len(file_bytes),
     stored_at |-> t] @@ md

\* writing a file by emptying the directory first
PutAlone(f, k, v) == [x \in {k} |-> v]

\* a directory of files, or a dict: a function on the names it holds
Put(f, k, v) == [x \in DOMAIN f \cup {k} |-> IF x = k THEN v ELSE f[x]]

\* an unlink that empties the directory
RemoveAll(f, k) == [x \in {} |-> f[x]]

Remove(f, k) == [x \in DOMAIN f \ {k} |-> f[x]]

Empty == [k \in {} |-> 0]

\* file_path.exists() / metadata_path.exists()
exists(dir, cid) == cid \in DOMAIN dir

\* retrieve_file, where the .bin file exists (None otherwise)
retrieve_file(ds, cid) == ds[cid]

\* get_metadata, where the .json file exists (None otherwise)
get_metadata(mds, cid) == mds[cid]

\* retrieve_file answering a missing file with empty bytes
retrieve_answer_empty(ds, cid) ==
    IF exists(ds, cid) THEN hex(retrieve_file(ds, cid)) ELSE hex(<<>>)

\* what retrieve_file returns: the bytes, or None
retrieve_answer(ds, cid) ==
    IF exists(ds, cid) THEN hex(retrieve_file(ds, cid)) ELSE "None"

\* what get_metadata returns: None, or the dict of the file (written down
\* as "dict"; the dict itself is get_metadata(mds, cid))
metadata_answer(mds, cid) ==
    IF exists(mds, cid) THEN "dict" ELSE "None"

\* list_all_cids adding the seed catalogue to what the store holds
list_all_cids_with_seeds(mds) == DOMAIN mds \cup SeedCids

\* list_all_cids: the stems of the .json files
list_all_cids(mds) == DOMAIN mds

\* verify_integrity trusting every file that is there
verify_integrity_present(ds, cid) == exists(ds, cid)

\* verify_integrity: the file is there and its digest is the cid
verify_integrity(ds, cid) ==
    IF ~exists(ds, cid) THEN FALSE
    ELSE compute_cid(retrieve_file(ds, cid)) = cid

\* the sum of the file sizes of a set of .bin files
RECURSIVE total_size(_, _)
total_size(ds, cids) ==
    IF cids = {} THEN 0
    ELSE LET cid == CHOOSE c \in cids : TRUE
         IN  Len(ds[cid]) + total_size(ds, cids \ {cid})

\* get_storage_stats: the number of .bin files and their total size
get_storage_stats(ds) ==
    [total_files |-> Cardinality(DOMAIN ds),
     total_size_bytes |-> total_size(ds, DOMAIN ds)]

\* ----------------------------------------------------- the ledger
\* sha256(f"{cid}{buyer}{amount}{utcnow}")[:16]: decided by its four inputs
generate_tx_id(cid, buyer, amount, t) == <<cid, buyer, amount, t>>

\* a tx_id no creation returned
UnknownTxId == <<"nocid", "nobody", 0, 0>>

TxIdsOf(txs) == {txs[i].tx_id : i \in 1..Len(txs)}

HasTx(txs, tx_id) == \E i \in 1..Len(txs) : txs[i].tx_id = tx_id

\* the record the loop `for tx in transactions: if tx["tx_id"] == tx_id`
\* stops at
FirstIndex(txs, tx_id) ==
    CHOOSE i \in 1..Len(txs) :
        /\ txs[i].tx_id = tx_id
        /\ \A j \in 1..(i - 1) : txs[j].tx_id # tx_id

\* get_transaction, where a record has the tx_id (None otherwise)
get_transaction(txs, tx_id) == txs[FirstIndex(txs, tx_id)]

\* is_dataset_purchased comparing the seller, not the buyer, with the user
is_dataset_purchased_by_seller(txs, cid, buyer) ==
    \E i \in 1..Len(txs) :
        /\ txs[i].cid = cid
        /\ txs[i].seller = buyer
        /\ txs[i].status = "completed"

\* is_dataset_purchased without the test of tx["status"]
is_dataset_purchased_any_status(txs, cid, buyer) ==
    \E i \in 1..Len(txs) :
        /\ txs[i].cid = cid
        /\ txs[i].buyer = buyer

is_dataset_purchased(txs, cid, buyer) ==
    \E i \in 1..Len(txs) :
        /\ txs[i].cid = cid
        /\ txs[i].buyer = buyer
        /\ txs[i].status = "completed"

\* Transaction(...).dict() of create_transaction
new_transaction(cid, buyer, seller, amount, t) ==
    [tx_id |-> generate_tx_id(cid, buyer, amount, t),
     cid |-> cid, buyer |-> buyer, seller |-> seller, amount |-> amount,
     timestamp |-> t, status |-> "pending", escrow_released |-> FALSE,
     completed_at |-> NoTime, failure_reason |-> NoText, failed_at |-> NoTime]

\* _add_to_escrow filing the entry as already released
add_to_escrow_released(esc, tx) ==
    Put(esc, tx.tx_id,
        [cid |-> tx.cid, buyer |-> tx.buyer, seller |-> tx.seller,
         amount |-> tx.amount, created_at |-> tx.timestamp,
         status |-> "released", released |-> FALSE,
         released_at |-> NoTime, refunded_at |-> NoTime])

\* _add_to_escrow: escrow_data[transaction.tx_id] = {...}
add_to_escrow(esc, tx) ==
    Put(esc, tx.tx_id,
        [cid |-> tx.cid, buyer |-> tx.buyer, seller |-> tx.seller,
         amount |-> tx.amount, created_at |-> tx.timestamp,
         status |-> "held", released |-> FALSE,
         released_at |-> NoTime, refunded_at |-> NoTime])

\* the two files after create_transaction
create_transaction(txs, esc, cid, buyer, amount, seller, t) ==
    LET tx == new_transaction(cid, buyer, seller, amount, t)
    IN  [transactions |-> Append(txs, tx),
         escrow |-> add_to_escrow(esc, tx),
         ret |-> tx.tx_id]

\* verify_payment refusing only the negative amounts
verify_payment_negative(tx_id, payment_amount) ==
    IF payment_amount < 0 THEN FALSE ELSE TRUE

verify_payment(tx_id, payment_amount) ==
    IF payment_amount <= 0 THEN FALSE ELSE TRUE

\* the loop of complete_transaction leaving escrow_released as it was
mark_completed_unreleased(txs, tx_id, t) ==
    [txs EXCEPT ![FirstIndex(txs, tx_id)] =
        [@ EXCEPT !.status = "completed", !.completed_at = t]]

\* the loop of complete_transaction over the loaded list
mark_completed(txs, tx_id, t) ==
    [txs EXCEPT ![FirstIndex(txs, tx_id)] =
        [@ EXCEPT !.status = "completed", !.escrow_released = TRUE,
                  !.completed_at = t]]

\* "Release escrow" of complete_transaction
release_escrow(esc, tx_id, t) ==
    IF tx_id \in DOMAIN esc
    THEN [esc EXCEPT ![tx_id] =
            [@ EXCEPT !.status = "released", !.released = TRUE,
                      !.released_at = t]]
    ELSE esc

\* complete_transaction refusing a payment below the recorded amount
complete_transaction_covering(txs, esc, tx_id, payment_amount, t) ==
    IF ~verify_payment(tx_id, payment_amount)
    THEN [transactions |-> txs, escrow |-> esc, ret |-> FALSE]
    ELSE IF ~HasTx(txs, tx_id)
    THEN [transactions |-> txs, escrow |-> esc, ret |-> FALSE]
    ELSE IF payment_amount < get_transaction(txs, tx_id).amount
    THEN [transactions |-> txs, escrow |-> esc, ret |-> FALSE]
    ELSE [transactions |-> mark_completed(txs, tx_id, t),
          escrow |-> release_escrow(esc, tx_id, t),
          ret |-> TRUE]

\* the two files after complete_transaction, and what it returns
complete_transaction(txs, esc, tx_id, payment_amount, t) ==
    IF ~verify_payment(tx_id, payment_amount)
    THEN [transactions |-> txs, escrow |-> esc, ret |-> FALSE]
    ELSE IF ~HasTx(txs, tx_id)
    THEN [transactions |-> txs, escrow |-> esc, ret |-> FALSE]
    ELSE [transactions |-> mark_completed(txs, tx_id, t),
          escrow |-> release_escrow(esc, tx_id, t),
          ret |-> TRUE]

\* the loop of fail_transaction also zeroing the amount it refunds
mark_failed_zeroed(txs, tx_id, reason, t) ==
    [txs EXCEPT ![FirstIndex(txs, tx_id)] =
        [@ EXCEPT !.status = "failed", !.failure_reason = reason,
                  !.failed_at = t, !.amount = 0]]

\* the loop of fail_transaction over the loaded list
mark_failed(txs, tx_id, reason, t) ==
    [txs EXCEPT ![FirstIndex(txs, tx_id)] =
        [@ EXCEPT !.status = "failed", !.failure_reason = reason,
                  !.failed_at = t]]

\* "Update escrow" of fail_transaction
refund_escrow(esc, tx_id, t) ==
    IF tx_id \in DOMAIN esc
    THEN [esc EXCEPT ![tx_id] =
            [@ EXCEPT !.status = "refunded", !.refunded_at = t]]
    ELSE esc

\* fail_transaction answering True for a tx_id no record has
fail_transaction_lenient(txs, esc, tx_id, reason, t) ==
    IF ~HasTx(txs, tx_id)
    THEN [transactions |-> txs, escrow |-> esc, ret |-> TRUE]
    ELSE [transactions |-> mark_failed(txs, tx_id, reason, t),
          escrow |-> refund_escrow(esc, tx_id, t),
          ret |-> TRUE]

\* the two files after fail_transaction, and what it returns
fail_transaction(txs, esc, tx_id, reason, t) ==
    IF ~HasTx(txs, tx_id)
    THEN [transactions |-> txs, escrow |-> esc, ret |-> FALSE]
    ELSE [transactions |-> mark_failed(txs, tx_id, reason, t),
          escrow |-> refund_escrow(esc, tx_id, t),
          ret |-> TRUE]

\* sum(tx["amount"] for tx in transactions if tx["status"] == "completed")
RECURSIVE total_volume(_)
total_volume(txs) ==
    IF txs = <<>> THEN 0
    ELSE (IF Head(txs).status = "completed" THEN Head(txs).amount ELSE 0)
         + total_volume(Tail(txs))

\* len([tx for tx in transactions if tx["status"] == status])
count_status(txs, status) ==
    Cardinality({i \in 1..Len(txs) : txs[i].status = status})

\* get_ledger_stats: the counts of the transactions file and the number of
\* escrow entries that are held
get_ledger_stats(txs, esc) ==
    [total_transactions |-> Len(txs),
     completed_transactions |-> count_status(txs, "completed"),
     pending_transactions |-> count_status(txs, "pending"),
     failed_transactions |-> count_status(txs, "failed"),
     total_volume |-> total_volume(txs),
     active_escrow_count |->
         Cardinality({tx_id \in DOMAIN esc : esc[tx_id].status = "held"})]

\* ------------------------------------------------------ the state
\* the last call: its name, the payment amount it was given (0 where it
\* has none) and its answer
Call(op, payment_amount, ret) ==
    [op |-> op, payment_amount |-> payment_amount, ret |-> ret]

NoCall == Call("none", 0, "none")

Bool(b) == IF b THEN "True" ELSE "False"

\* the workers that serve requests over the same storage directory
Procs == {1, 2}

\* a worker between two requests
Idle ==
    [pc |-> "idle", handler |-> "none", tx_id |-> UnknownTxId,
     payment_amount |-> 0, ltx |-> <<>>, lesc |-> Empty]

\* the storage directories and the ledger files as the constructors leave
\* them (_init_ledger_files: [] and {})
Init ==
    /\ now = 0
    /\ datasets = Empty
    /\ metadata = Empty
    /\ transactions = <<>>
    /\ escrow = Empty
    /\ procs = [p \in Procs |-> Idle]
    /\ last = NoCall

\* the tx_ids a caller may name: every one issued, and one never issued
TxIdArgs == TxIdsOf(transactions) \cup {UnknownTxId}

\* request.cid and request.buyer of the purchases: two seed datasets, each
\* with its buyer, and a cid that neither the store nor the seed list holds
PurchasePairs ==
    {<<"seed0001aaaaaaaaaaaaaaaaaaaaaaaaaaaaaaaaaaaaaaaaaaaaaaaaaaaaaaaa", "bob">>,
     <<"seed0002bbbbbbbbbbbbbbbbbbbbbbbbbbbbbbbbbbbbbbbbbbbbbbbbbbbbbbbb", "carol">>,
     <<compute_cid(<<1>>), "bob">>}

\* ------------------------------------------- the calls, one at a time
\* time passes between two calls
Tick ==
    /\ now + 1 \in Instants
    /\ now' = now + 1
    /\ last' = Call("tick", 0, "none")
    /\ UNCHANGED <<datasets, metadata, transactions, escrow, procs>>

\* store_file taking the id from the bytes and the clock
StoreFileSalted(file_bytes, md) ==
    LET cid == compute_cid(IF now = 0 THEN file_bytes ELSE <<1, 2>>)
    IN  /\ datasets' = Put(datasets, cid, file_bytes)
        /\ metadata' = Put(metadata, cid,
                           metadata_enhanced(file_bytes, md, now))
        /\ last' = Call("store_file", 0, cid)
        /\ UNCHANGED <<now, transactions, escrow, procs>>

\* store_file leaving the metadata of a file it already holds
StoreFileKeepsMetadata(file_bytes, md) ==
    LET cid == compute_cid(file_bytes)
    IN  /\ datasets' = Put(datasets, cid, file_bytes)
        /\ metadata' = IF exists(metadata, cid) THEN metadata
                       ELSE Put(metadata, cid,
                                metadata_enhanced(file_bytes, md, now))
        /\ last' = Call("store_file", 0, cid)
        /\ UNCHANGED <<now, transactions, escrow, procs>>

\* ipfs.store_file(file_bytes, metadata)
StoreFile(file_bytes, md) ==
    LET cid == compute_cid(file_bytes)
    IN  /\ datasets' = Put(datasets, cid, file_bytes)
        /\ metadata' = Put(metadata, cid,
                           metadata_enhanced(file_bytes, md, now))
        /\ last' = Call("store_file", 0, cid)
        /\ UNCHANGED <<now, transactions, escrow, procs>>

\* delete_file unlinking the .bin file only
DeleteFileBlobOnly(cid) ==
    LET deleted == exists(datasets, cid) \/ exists(metadata, cid)
    IN  /\ datasets' = Remove(datasets, cid)
        /\ metadata' = metadata
        /\ last' = Call("delete_file", 0, Bool(deleted))
        /\ UNCHANGED <<now, transactions, escrow, procs>>

\* delete_file reporting True only when it unlinked both files
DeleteFileCountsBoth(cid) ==
    LET deleted == exists(datasets, cid) /\ exists(metadata, cid)
    IN  /\ datasets' = Remove(datasets, cid)
        /\ metadata' = Remove(metadata, cid)
        /\ last' = Call("delete_file", 0, Bool(deleted))
        /\ UNCHANGED <<now, transactions, escrow, procs>>

\* delete_file also dropping the escrow entries of the object
DeleteFileCascades(cid) ==
    LET deleted == exists(datasets, cid) \/ exists(metadata, cid)
        kept == {tx_id \in DOMAIN escrow : escrow[tx_id].cid # cid}
    IN  /\ datasets' = Remove(datasets, cid)
        /\ metadata' = Remove(metadata, cid)
        /\ escrow' = [tx_id \in kept |-> escrow[tx_id]]
        /\ last' = Call("delete_file", 0, Bool(deleted))
        /\ UNCHANGED <<now, transactions, procs>>

\* ipfs.delete_file(cid)
DeleteFile(cid) ==
    LET deleted == exists(datasets, cid) \/ exists(metadata, cid)
    IN  /\ datasets' = Remove(datasets, cid)
        /\ metadata' = Remove(metadata, cid)
        /\ last' = Call("delete_file", 0, Bool(deleted))
        /\ UNCHANGED <<now, transactions, escrow, procs>>

\* ipfs.retrieve_file(cid)
RetrieveFile(cid) ==
    /\ last' = Call("retrieve_file", 0, retrieve_answer(datasets, cid))
    /\ UNCHANGED <<now, datasets, metadata, transactions, escrow, procs>>

\* ipfs.get_metadata(cid)
GetMetadata(cid) ==
    /\ last' = Call("get_metadata", 0, metadata_answer(metadata, cid))
    /\ UNCHANGED <<now, datasets, metadata, transactions, escrow, procs>>

\* ipfs.verify_integrity(cid)
VerifyIntegrity(cid) ==
    /\ last' = Call("verify_integrity", 0,
                    Bool(verify_integrity(datasets, cid)))
    /\ UNCHANGED <<now, datasets, metadata, transactions, escrow, procs>>

\* cid.startswith("seed") and a seed dataset has the cid
is_seed(cid) == cid \in SeedCids

\* `if not metadata` of initiate_purchase is false
has_purchase_metadata(mds, cid) == exists(mds, cid) \/ is_seed(cid)

\* the metadata initiate_purchase finds for request.cid: the store's, or
\* else a seed dataset's
purchase_metadata(mds, cid) ==
    IF exists(mds, cid) THEN get_metadata(mds, cid) ELSE seed_dataset(cid)

\* the checks of POST /api/purchase also refusing a pair that has a
\* pending transaction
purchase_check_one_pending(mds, txs, cid, buyer, amount) ==
    LET md == purchase_metadata(mds, cid)
    IN  IF ~has_purchase_metadata(mds, cid) THEN "404 Dataset not found"
        ELSE IF amount < md.price THEN "400 Insufficient payment"
        ELSE IF \E i \in 1..Len(txs) :
                    /\ txs[i].cid = cid
                    /\ txs[i].buyer = buyer
                    /\ txs[i].status \in {"completed", "pending"}
        THEN "400 Dataset already purchased by this user"
        ELSE "200"

\* the checks of POST /api/purchase without the comparison of the amount
\* with the price
purchase_check_any_amount(mds, txs, cid, buyer, amount) ==
    IF ~has_purchase_metadata(mds, cid) THEN "404 Dataset not found"
    ELSE IF is_dataset_purchased(txs, cid, buyer)
    THEN "400 Dataset already purchased by this user"
    ELSE "200"

\* what POST /api/purchase answers, before it creates anything
purchase_check(mds, txs, cid, buyer, amount) ==
    LET md == purchase_metadata(mds, cid)
    IN  IF ~has_purchase_metadata(mds, cid) THEN "404 Dataset not found"
        ELSE IF amount < md.price THEN "400 Insufficient payment"
        ELSE IF is_dataset_purchased(txs, cid, buyer)
        THEN "400 Dataset already purchased by this user"
        ELSE "200"

\* POST /api/purchase: the already-purchased check, then create_transaction
InitiatePurchase(cid, buyer, amount) ==
    LET answer == purchase_check(metadata, transactions, cid, buyer, amount)
        seller == purchase_metadata(metadata, cid).uploader
        r == create_transaction(transactions, escrow, cid, buyer, amount,
                                seller, now)
    IN  /\ answer = "200" => Len(transactions) < MaxTx
        /\ IF answer = "200"
           THEN transactions' = r.transactions /\ escrow' = r.escrow
           ELSE UNCHANGED <<transactions, escrow>>
        /\ last' = Call("initiate_purchase", 0, answer)
        /\ UNCHANGED <<now, datasets, metadata, procs>>

\* blockchain.complete_transaction(tx_id, payment_amount)
CompleteTransaction(tx_id, payment_amount) ==
    LET r == complete_transaction(transactions, escrow, tx_id,
                                  payment_amount, now)
    IN  /\ transactions' = r.transactions
        /\ escrow' = r.escrow
        /\ last' = Call("complete_transaction", payment_amount,
                        Bool(r.ret))
        /\ UNCHANGED <<now, datasets, metadata, procs>>

\* blockchain.fail_transaction(tx_id)
FailTransaction(tx_id) ==
    LET r == fail_transaction(transactions, escrow, tx_id, "Payment failed",
                              now)
    IN  /\ transactions' = r.transactions
        /\ escrow' = r.escrow
        /\ last' = Call("fail_transaction", 0, Bool(r.ret))
        /\ UNCHANGED <<now, datasets, metadata, procs>>

Next ==
    \/ Tick
    \/ \E pair \in PurchasePairs, amount \in Amounts :
          InitiatePurchase(pair[1], pair[2], amount)
    \/ \E tx_id \in TxIdArgs, p \in PaymentAmounts :
          CompleteTransaction(tx_id, p)
    \/ \E tx_id \in TxIdArgs : FailTransaction(tx_id)

\* the purchase path and the ledger's calls against the seed catalogue, one
\* call at a time
Spec == Init /\ [][Next]_vars

\* ------------------------------- the handlers of two workers, step by step
\* Each worker runs one handler at a time; a step is one read or one write
\* of a ledger file (a write replaces the whole file at once).  Nothing in
\* blockchain_ledger.py locks the files, so the steps of two workers
\* interleave freely.  procs[self].ltx and .lesc are the worker's local
\* `transactions` and `escrow_data`.

\* the requests of the interleaved runs: purchases of one seed dataset by
\* one buyer at its price, payments of 1 (a payment that fails verification
\* is a call of Spec)
ConcPairs ==
    {<<"seed0001aaaaaaaaaaaaaaaaaaaaaaaaaaaaaaaaaaaaaaaaaaaaaaaaaaaaaaaa", "bob">>}
ConcAmounts == {9999}
ConcPaymentAmounts == {1}

\* the worker answers and is free again
Respond(self, op, answer) ==
    /\ procs' = [procs EXCEPT ![self] = Idle]
    /\ last' = Call(op, procs[self].payment_amount, answer)

\* a step that leaves the worker where it is
GotoStay(self, pc) == procs' = procs

Goto(self, pc) == procs' = [procs EXCEPT ![self].pc = pc]

\* POST /api/pay up to the call of complete_transaction: get_transaction
\* and the two checks on what it returned
PayGet(self, tx_id, payment_amount) ==
    /\ procs[self].pc = "idle"
    /\ IF ~HasTx(transactions, tx_id)
       THEN /\ last' = Call("pay", payment_amount,
                            "404 Transaction not found")
            /\ UNCHANGED procs
       ELSE IF get_transaction(transactions, tx_id).status # "pending"
       THEN /\ last' = Call("pay", payment_amount,
                            "400 Transaction is not pending")
            /\ UNCHANGED procs
       ELSE /\ procs' = [procs EXCEPT ![self] =
                           [Idle EXCEPT !.pc = "complete_load",
                                        !.handler = "pay",
                                        !.tx_id = tx_id,
                                        !.payment_amount = payment_amount]]
            /\ UNCHANGED last
    /\ UNCHANGED <<now, datasets, metadata, transactions, escrow>>

\* POST /api/transaction/{tx_id}/cancel up to the call of fail_transaction
CancelGet(self, tx_id) ==
    /\ procs[self].pc = "idle"
    /\ IF ~HasTx(transactions, tx_id)
       THEN /\ last' = Call("cancel", 0, "404 Transaction not found")
            /\ UNCHANGED procs
       ELSE IF get_transaction(transactions, tx_id).status # "pending"
       THEN /\ last' = Call("cancel", 0, "400 Cannot cancel transaction")
            /\ UNCHANGED procs
       ELSE /\ procs' = [procs EXCEPT ![self] =
                           [Idle EXCEPT !.pc = "fail_load",
                                        !.handler = "cancel",
                                        !.tx_id = tx_id]]
            /\ UNCHANGED last
    /\ UNCHANGED <<now, datasets, metadata, transactions, escrow>>

\* complete_transaction: verify_payment, _load_transactions and the loop.
\* On False, /pay goes on to fail_transaction.
CompleteLoad(self) ==
    LET me == procs[self]
    IN  /\ me.pc = "complete_load"
        /\ IF /\ verify_payment(me.tx_id, me.payment_amount)
              /\ HasTx(transactions, me.tx_id)
           THEN procs' = [procs EXCEPT ![self].pc = "complete_save",
                             ![self].ltx =
                                 mark_completed(transactions, me.tx_id, now)]
           ELSE Goto(self, "fail_load")
        /\ UNCHANGED <<now, datasets, metadata, transactions, escrow, last>>

\* complete_transaction: _save_transactions(transactions)
CompleteSave(self) ==
    /\ procs[self].pc = "complete_save"
    /\ transactions' = procs[self].ltx
    /\ Goto(self, "complete_escrow_load")
    /\ UNCHANGED <<now, datasets, metadata, escrow, last>>

\* complete_transaction: _load_escrow and `if tx_id in escrow_data`; with no
\* entry it returns True and /pay answers
CompleteEscrowLoad(self) ==
    LET me == procs[self]
    IN  /\ me.pc = "complete_escrow_load"
        /\ IF me.tx_id \in DOMAIN escrow
           THEN /\ procs' = [procs EXCEPT ![self].pc = "complete_escrow_save",
                                ![self].lesc =
                                    release_escrow(escrow, me.tx_id, now)]
                /\ UNCHANGED last
           ELSE Respond(self, "pay", "200")
        /\ UNCHANGED <<now, datasets, metadata, transactions, escrow>>

\* complete_transaction: _save_escrow(escrow_data), return True, and /pay
\* answers
CompleteEscrowSave(self) ==
    /\ procs[self].pc = "complete_escrow_save"
    /\ escrow' = procs[self].lesc
    /\ Respond(self, "pay", "200")
    /\ UNCHANGED <<now, datasets, metadata, transactions>>

\* the reason the handler gives to fail_transaction
fail_reason(handler) ==
    IF handler = "pay" THEN "Payment verification failed"
    ELSE "Cancelled by user"

\* what the handler answers after fail_transaction returned ret
fail_answer(handler, ret) ==
    IF handler = "pay" THEN "400 Payment verification failed"
    ELSE IF ret THEN "200"
    ELSE "500 Failed to cancel transaction"

\* fail_transaction: _load_transactions and the loop
FailLoad(self) ==
    LET me == procs[self]
    IN  /\ me.pc = "fail_load"
        /\ IF HasTx(transactions, me.tx_id)
           THEN /\ procs' = [procs EXCEPT ![self].pc = "fail_save",
                                ![self].ltx =
                                    mark_failed(transactions, me.tx_id,
                                                fail_reason(me.handler), now)]
                /\ UNCHANGED last
           ELSE Respond(self, me.handler, fail_answer(me.handler, FALSE))
        /\ UNCHANGED <<now, datasets, metadata, transactions, escrow>>

\* fail_transaction: _save_transactions(transactions)
FailSave(self) ==
    /\ procs[self].pc = "fail_save"
    /\ transactions' = procs[self].ltx
    /\ Goto(self, "fail_escrow_load")
    /\ UNCHANGED <<now, datasets, metadata, escrow, last>>

\* fail_transaction: _load_escrow and `if tx_id in escrow_data`
FailEscrowLoad(self) ==
    LET me == procs[self]
    IN  /\ me.pc = "fail_escrow_load"
        /\ IF me.tx_id \in DOMAIN escrow
           THEN /\ procs' = [procs EXCEPT ![self].pc = "fail_escrow_save",
                                ![self].lesc =
                                    refund_escrow(escrow, me.tx_id, now)]
                /\ UNCHANGED last
           ELSE Respond(self, me.handler, fail_answer(me.handler, TRUE))
        /\ UNCHANGED <<now, datasets, metadata, transactions, escrow>>

\* fail_transaction: _save_escrow(escrow_data), return True, and the
\* handler answers
FailEscrowSave(self) ==
    /\ procs[self].pc = "fail_escrow_save"
    /\ escrow' = procs[self].lesc
    /\ Respond(self, procs[self].handler,
               fail_answer(procs[self].handler, TRUE))
    /\ UNCHANGED <<now, datasets, metadata, transactions>>

NextConc ==
    \/ Tick
    \/ \E pair \in ConcPairs, amount \in ConcAmounts :
          InitiatePurchase(pair[1], pair[2], amount)
    \/ \E self \in Procs, tx_id \in TxIdArgs, p \in ConcPaymentAmounts :
          PayGet(self, tx_id, p)
    \/ \E self \in Procs, tx_id \in TxIdArgs : CancelGet(self, tx_id)
    \/ \E self \in Procs : CompleteLoad(self)
    \/ \E self \in Procs : CompleteSave(self)
    \/ \E self \in Procs : CompleteEscrowLoad(self)
    \/ \E self \in Procs : CompleteEscrowSave(self)
    \/ \E self \in Procs : FailLoad(self)
    \/ \E self \in Procs : FailSave(self)
    \/ \E self \in Procs : FailEscrowLoad(self)
    \/ \E self \in Procs : FailEscrowSave(self)

\* /pay and /cancel served by two workers over the same ledger files, while
\* purchases arrive
SpecConc == Init /\ [][NextConc]_vars

\* ------------------------------------------- /pay and /cancel, whole
\* POST /api/pay answering the failed verification without
\* fail_transaction
CompletePaymentNoFail(tx_id, payment_amount) ==
    LET r == complete_transaction(transactions, escrow, tx_id,
                                  payment_amount, now)
        answer ==
            IF ~HasTx(transactions, tx_id) THEN "404 Transaction not found"
            ELSE IF get_transaction(transactions, tx_id).status # "pending"
            THEN "400 Transaction is not pending"
            ELSE IF r.ret THEN "200"
            ELSE "400 Payment verification failed"
    IN  /\ IF answer = "200"
           THEN transactions' = r.transactions /\ escrow' = r.escrow
           ELSE UNCHANGED <<transactions, escrow>>
        /\ last' = Call("pay", payment_amount, answer)
        /\ UNCHANGED <<now, datasets, metadata, procs>>

\* POST /api/pay: get_transaction and the two checks, then
\* complete_transaction, and fail_transaction when it returned False
CompletePayment(tx_id, payment_amount) ==
    LET r == complete_transaction(transactions, escrow, tx_id,
                                  payment_amount, now)
        f == fail_transaction(r.transactions, r.escrow, tx_id,
                              fail_reason("pay"), now)
        answer ==
            IF ~HasTx(transactions, tx_id) THEN "404 Transaction not found"
            ELSE IF get_transaction(transactions, tx_id).status # "pending"
            THEN "400 Transaction is not pending"
            ELSE IF r.ret THEN "200"
            ELSE fail_answer("pay", f.ret)
    IN  /\ IF answer = "200"
           THEN transactions' = r.transactions /\ escrow' = r.escrow
           ELSE IF answer = "400 Payment verification failed"
           THEN transactions' = f.transactions /\ escrow' = f.escrow
           ELSE UNCHANGED <<transactions, escrow>>
        /\ last' = Call("pay", payment_amount, answer)
        /\ UNCHANGED <<now, datasets, metadata, procs>>

\* POST /api/transaction/{tx_id}/cancel: get_transaction and the two
\* checks, then fail_transaction
CancelTransaction(tx_id) ==
    LET f == fail_transaction(transactions, escrow, tx_id,
                              fail_reason("cancel"), now)
        checked ==
            IF ~HasTx(transactions, tx_id) THEN "404 Transaction not found"
            ELSE IF get_transaction(transactions, tx_id).status # "pending"
            THEN "400 Cannot cancel transaction"
            ELSE "pending"
    IN  /\ IF checked = "pending"
           THEN /\ transactions' = f.transactions
                /\ escrow' = f.escrow
                /\ last' = Call("cancel", 0, fail_answer("cancel", f.ret))
           ELSE /\ UNCHANGED <<transactions, escrow>>
                /\ last' = Call("cancel", 0, checked)
        /\ UNCHANGED <<now, datasets, metadata, procs>>

NextRoutes ==
    \/ Tick
    \/ \E pair \in PurchasePairs, amount \in Amounts :
          InitiatePurchase(pair[1], pair[2], amount)
    \/ \E tx_id \in TxIdArgs, p \in PaymentAmounts :
          CompletePayment(tx_id, p)
    \/ \E tx_id \in TxIdArgs : CancelTransaction(tx_id)

\* the three POST handlers of routes/transactions.py, one request at a time
SpecRoutes == Init /\ [][NextRoutes]_vars

\* ------------------------------------------ a write of a ledger file fails
\* The two writes of create_transaction: _save_transactions (line 79) and
\* the _save_escrow of _add_to_escrow (line 100).
LedgerWrites == {"transactions", "escrow"}

\* POST /api/purchase when open() of the named ledger file raises inside
\* create_transaction: nothing in the ledger catches it, the write before it
\* stays, and the handler's `except Exception` answers 500
InitiatePurchaseWriteFails(cid, buyer, amount, at) ==
    LET seller == purchase_metadata(metadata, cid).uploader
        tx == new_transaction(cid, buyer, seller, amount, now)
    IN  /\ purchase_check(metadata, transactions, cid, buyer, amount) = "200"
        /\ Len(transactions) < MaxTx
        /\ transactions' = IF at = "transactions" THEN transactions
                           ELSE Append(transactions, tx)
        /\ last' = Call("initiate_purchase", 0,
                        "500 Purchase initiation failed")
        /\ UNCHANGED <<now, datasets, metadata, escrow, procs>>

NextFault ==
    \/ Next
    \/ \E pair \in PurchasePairs, amount \in Amounts, at \in LedgerWrites :
          InitiatePurchaseWriteFails(pair[1], pair[2], amount, at)

\* the calls of Spec on a disk whose writes may fail
SpecFault == Init /\ [][NextFault]_vars

\* ------------------------------------------------ the store on its own
\* the cids the callers of the store name: the digests of the blobs
StoreCids == {compute_cid(b) : b \in Blobs}

NextStore ==
    \/ Tick
    \/ \E file_bytes \in Blobs, md \in Metadatas : StoreFile(file_bytes, md)
    \/ \E cid \in Cids : DeleteFile(cid)
    \/ \E cid \in StoreCids : RetrieveFile(cid)
    \/ \E cid \in StoreCids : GetMetadata(cid)
    \/ \E cid \in StoreCids : VerifyIntegrity(cid)

\* the calls of the store, one at a time
SpecStore == Init /\ [][NextStore]_vars

\* ---------------------------------------- the .bin files changed from outside
\* what a .bin file may hold after something other than the store wrote it
TamperedBytes == Blobs \cup {<<>>}

\* the bytes of <cid>.bin are replaced, behind the store's back, by other
\* bytes
Corrupt(cid, data_bytes) ==
    /\ exists(datasets, cid)
    /\ data_bytes # datasets[cid]
    /\ datasets' = Put(datasets, cid, data_bytes)
    /\ last' = Call("corrupt", 0, "none")
    /\ UNCHANGED <<now, metadata, transactions, escrow, procs>>

NextTamper ==
    \/ NextStore
    \/ \E cid \in StoreCids, data_bytes \in TamperedBytes :
          Corrupt(cid, data_bytes)

\* the calls of the store over files that may be changed out of band
SpecTamper == Init /\ [][NextTamper]_vars

\* ------------------------------------------ a write of store_file fails
\* where store_file can raise: open() of the .bin file, f.write() into it,
\* open() of the .json file.  (A json.dump that fails after its open()
\* leaves a .json file that json.load cannot parse; the model has no such
\* file.)
StoreWrites == {"blob_open", "blob_write", "metadata_open"}

\* what a write that raised has left of the bytes: a proper prefix
Prefixes(data_bytes) ==
    {SubSeq(data_bytes, 1, n) : n \in 0..(Len(data_bytes) - 1)}

\* ipfs.store_file(file_bytes, metadata) when the named write raises:
\* nothing in store_file catches it.  open(file_path, "wb") has emptied the
\* .bin file before f.write() runs, so a failed f.write() leaves a prefix
\* of the bytes; the .json file is written only after the .bin file.
StoreFileWriteFails(file_bytes, md, at, written) ==
    LET cid == compute_cid(file_bytes)
    IN  /\ datasets' =
              IF at = "blob_open" THEN datasets
              ELSE IF at = "blob_write" THEN Put(datasets, cid, written)
              ELSE Put(datasets, cid, file_bytes)
        /\ last' = Call("store_file", 0, "raise OSError")
        /\ UNCHANGED <<now, metadata, transactions, escrow, procs>>

NextStoreFault ==
    \/ NextStore
    \/ \E file_bytes \in Blobs, md \in Metadatas, at \in StoreWrites :
          \E written \in Prefixes(file_bytes) :
              StoreFileWriteFails(file_bytes, md, at, written)

\* the calls of the store on a disk whose writes may fail
SpecStoreFault == Init /\ [][NextStoreFault]_vars

\* --------------------------------- metadata that names the store's own keys
\* what a caller may hand to store_file: a dict with a title, and a dict
\* that also supplies "cid" and "file_size" itself (DatasetMetadata of
\* models.py has both fields)
SuppliedMetadatas ==
    [price : {0}, uploader : {"alice", "bob"}, title : {"t"}]
    \cup [price : {0}, uploader : {"alice", "bob"}, title : {"supplies cid"},
          cid : {"caller"}, file_size : {99}]

NextSupplied ==
    \/ Tick
    \/ \E file_bytes \in Blobs, md \in SuppliedMetadatas :
          StoreFile(file_bytes, md)
    \/ \E cid \in StoreCids : DeleteFile(cid)
    \/ \E cid \in StoreCids : GetMetadata(cid)

\* the calls of the store with metadata of both kinds
SpecSupplied == Init /\ [][NextSupplied]_vars

\* ------------------------- store_file and delete_file of two workers, step
\* by step.  Nothing in ipfs_mimic.py locks a file or writes it under a
\* temporary name, so the steps of two workers interleave freely.  A step is
\* one open(), one write-and-close, or one unlink().  (The .json file is
\* written in one step: between its open() and its close it cannot be
\* parsed, and the model has no such file.)

\* a worker inside store_file or delete_file: the cid it works on, the
\* arguments of store_file, whether the .bin file it has opened is still
\* the one the directory names (an unlink leaves the open file without a
\* name), and what delete_file will return
StoreWorker(pc, cid, file_bytes, md, linked, deleted) ==
    [pc |-> pc, handler |-> "store", cid |-> cid, file_bytes |-> file_bytes,
     md |-> md, linked |-> linked, deleted |-> deleted]

StorePcs == {"store_write_blob", "store_write_metadata"}

\* store_file: compute_cid and open(file_path, "wb"), which creates the
\* file or empties the one that is there
StoreOpenBlob(self, file_bytes, md) ==
    LET cid == compute_cid(file_bytes)
    IN  /\ procs[self].pc = "idle"
        /\ datasets' = Put(datasets, cid, <<>>)
        /\ procs' = [procs EXCEPT ![self] =
                        StoreWorker("store_write_blob", cid, file_bytes, md,
                                    TRUE, FALSE)]
        /\ UNCHANGED <<now, metadata, transactions, escrow, last>>

\* store_file: f.write(file_bytes) and the close of the .bin file
StoreWriteBlob(self) ==
    LET me == procs[self]
    IN  /\ me.pc = "store_write_blob"
        /\ datasets' = IF me.linked
                       THEN Put(datasets, me.cid, me.file_bytes)
                       ELSE datasets
        /\ procs' = [procs EXCEPT ![self].pc = "store_write_metadata"]
        /\ UNCHANGED <<now, metadata, transactions, escrow, last>>

\* store_file: the .json file is written, and cid is returned
StoreWriteMetadata(self) ==
    LET me == procs[self]
    IN  /\ me.pc = "store_write_metadata"
        /\ metadata' = Put(metadata, me.cid,
                           metadata_enhanced(me.file_bytes, me.md, now))
        /\ procs' = [procs EXCEPT ![self] = Idle]
        /\ last' = Call("store_file", 0, me.cid)
        /\ UNCHANGED <<now, datasets, transactions, escrow>>

\* delete_file: `if file_path.exists(): file_path.unlink()`; a worker that
\* has the .bin file open keeps a file without a name
DeleteUnlinkBlob(self, cid) ==
    /\ procs[self].pc = "idle"
    /\ datasets' = Remove(datasets, cid)
    /\ procs' = [p \in Procs |->
                    IF p = self
                    THEN StoreWorker("delete_metadata", cid, <<>>,
                                     [price |-> 0, uploader |-> NoText],
                                     FALSE, exists(datasets, cid))
                    ELSE IF /\ procs[p].pc = "store_write_blob"
                            /\ procs[p].cid = cid
                    THEN [procs[p] EXCEPT !.linked = FALSE]
                    ELSE procs[p]]
    /\ UNCHANGED <<now, metadata, transactions, escrow, last>>

\* delete_file: `if metadata_path.exists(): metadata_path.unlink()`, and
\* `return deleted`
DeleteUnlinkMetadata(self) ==
    LET me == procs[self]
    IN  /\ me.pc = "delete_metadata"
        /\ metadata' = Remove(metadata, me.cid)
        /\ procs' = [procs EXCEPT ![self] = Idle]
        /\ last' = Call("delete_file", 0,
                        Bool(me.deleted \/ exists(metadata, me.cid)))
        /\ UNCHANGED <<now, datasets, transactions, escrow>>

NextStoreConc ==
    \/ Tick
    \/ \E self \in Procs, file_bytes \in Blobs, md \in Metadatas :
          StoreOpenBlob(self, file_bytes, md)
    \/ \E self \in Procs : StoreWriteBlob(self)
    \/ \E self \in Procs : StoreWriteMetadata(self)
    \/ \E self \in Procs, cid \in StoreCids : DeleteUnlinkBlob(self, cid)
    \/ \E self \in Procs : DeleteUnlinkMetadata(self)

\* uploads and deletions served by two workers over the same directories
SpecStoreConc == Init /\ [][NextStoreConc]_vars

\* ------------------------------------- every handler runs to its answer
\* the uploads, deletions, payments and cancellations two workers serve at
\* once: one object, one purchase pair
LiveBlobs == {<<1>>}
LiveMetadatas == {[price |-> 0, uploader |-> "alice"]}
LiveCids == {compute_cid(b) : b \in LiveBlobs}

\* the next statement of the handler the worker is in
Proceed(self) ==
    \/ CompleteLoad(self)
    \/ CompleteSave(self)
    \/ CompleteEscrowLoad(self)
    \/ CompleteEscrowSave(self)
    \/ FailLoad(self)
    \/ FailSave(self)
    \/ FailEscrowLoad(self)
    \/ FailEscrowSave(self)
    \/ StoreWriteBlob(self)
    \/ StoreWriteMetadata(self)
    \/ DeleteUnlinkMetadata(self)

\* (no statement of a handler waits for the clock: the requests all arrive
\* within one reading of it)
NextLive ==
    \/ \E pair \in ConcPairs, amount \in ConcAmounts :
          InitiatePurchase(pair[1], pair[2], amount)
    \/ \E self \in Procs, tx_id \in TxIdArgs, p \in ConcPaymentAmounts :
          PayGet(self, tx_id, p)
    \/ \E self \in Procs, tx_id \in TxIdArgs : CancelGet(self, tx_id)
    \/ \E self \in Procs, file_bytes \in LiveBlobs, md \in LiveMetadatas :
          StoreOpenBlob(self, file_bytes, md)
    \/ \E self \in Procs, cid \in LiveCids : DeleteUnlinkBlob(self, cid)
    \/ \E self \in Procs : Proceed(self)

\* The handlers are straight-line code over local files: no lock, no wait
\* on another handler, and loops over the loaded list only.  A worker that
\* has a next statement is run by the scheduler sooner or later, which is
\* weak fairness of each worker's steps; requests themselves need not
\* arrive.
SpecLive ==
    /\ Init
    /\ [][NextLive]_vars
    /\ \A self \in Procs : WF_vars(Proceed(self))

\* ------------------------------------------------------- the download
\* buyer of GET /api/download/{cid}: a buyer, or none given
DownloadBuyers == Buyers \cup {NoText}

\* the purchases of stored objects: both buyers, at an amount that covers
\* the price
StorePairs == {<<compute_cid(<<1>>), "bob">>, <<compute_cid(<<1>>), "carol">>}
StoreAmounts == {9999}
\* the payments that complete them
StorePaymentAmounts == {1}

\* seed_data.get_seed_datasets(): generate_seed_cid(1) is "seed0001" padded
\* with "a", the second entry of SEED_DATASETS; no other cid of the model is
\* in this catalogue
in_seed_data(cid) ==
    cid = "seed0001aaaaaaaaaaaaaaaaaaaaaaaaaaaaaaaaaaaaaaaaaaaaaaaaaaaaaaaa"

download_seed_dataset(cid) ==
    [price |-> 4999,
     uploader |-> "0x8f3B9C1d4E2A5F6c7D8E9F0A1B2C3D4E5F6A7B8C",
     cid |-> cid, file_size |-> 450000, stored_at |-> NoTime]

\* `if not metadata` of download_dataset is false
has_download_metadata(mds, cid) == exists(mds, cid) \/ in_seed_data(cid)

\* the metadata download_dataset finds for cid
download_metadata(mds, cid) ==
    IF exists(mds, cid) THEN get_metadata(mds, cid)
    ELSE download_seed_dataset(cid)

\* what GET /api/download/{cid}?buyer=... answers; "200" carries the bytes
\* of the stored file, or the demo CSV for a seed dataset
download_dataset(ds, mds, txs, cid, buyer) ==
    LET md == download_metadata(mds, cid)
    IN  IF ~has_download_metadata(mds, cid) THEN "404 Dataset not found"
        ELSE IF /\ md.price > 0
                /\ buyer # NoText
                /\ ~is_dataset_purchased(txs, cid, buyer)
        THEN "403 Dataset not purchased"
        ELSE IF ~exists(ds, cid) /\ ~in_seed_data(cid)
        THEN "404 Dataset file not found"
        ELSE "200"

DownloadDataset(cid, buyer) ==
    /\ last' = Call("download", 0,
                    download_dataset(datasets, metadata, transactions,
                                     cid, buyer))
    /\ UNCHANGED <<now, datasets, metadata, transactions, escrow, procs>>

NextDownload ==
    \/ Tick
    \/ \E file_bytes \in Blobs, md \in Metadatas : StoreFile(file_bytes, md)
    \/ \E pair \in StorePairs, amount \in StoreAmounts :
          InitiatePurchase(pair[1], pair[2], amount)
    \/ \E tx_id \in TxIdArgs, p \in StorePaymentAmounts :
          CompleteTransaction(tx_id, p)
    \/ \E cid \in Cids, buyer \in DownloadBuyers : DownloadDataset(cid, buyer)

\* uploads, purchases of the uploaded objects, payments and downloads
SpecDownload == Init /\ [][NextDownload]_vars

\* ------------------------------------------- the store and the ledger
\* the objects uploaded and deleted while they are bought
MarketBlobs == {<<1>>}
MarketMetadatas == {[price |-> 5000, uploader |-> "alice"]}
\* the purchases of the object, at an amount that covers its price
MarketPairs == {<<compute_cid(<<1>>), "bob">>}

NextMarket ==
    \/ Tick
    \/ \E file_bytes \in MarketBlobs, md \in MarketMetadatas :
          StoreFile(file_bytes, md)
    \/ \E cid \in StoreCids : DeleteFile(cid)
    \/ \E pair \in MarketPairs, amount \in StoreAmounts :
          InitiatePurchase(pair[1], pair[2], amount)
    \/ \E tx_id \in TxIdArgs, p \in StorePaymentAmounts :
          CompleteTransaction(tx_id, p)
    \/ \E tx_id \in TxIdArgs : FailTransaction(tx_id)

\* uploads and deletions of objects, and the ledger's calls on them
SpecMarket == Init /\ [][NextMarket]_vars

\* ------------------------------------------------- claims under Spec
Terminal == {"completed", "failed"}

\* a completed record for (cid, buyer) is in the list
CompletedExists(txs, cid, buyer) ==
    \E i \in 1..Len(txs) :
        txs[i].cid = cid /\ txs[i].buyer = buyer /\ txs[i].status = "completed"

\* the status of the record a call on tx_id works on
StatusOf(txs, tx_id) == txs[FirstIndex(txs, tx_id)].status

\* C1: complete_transaction on a transaction that is already completed or
\* already failed returns False and changes neither file, for every
\* payment amount.
C1_CompleteOnTerminalRejected ==
    [][\A tx_id \in TxIdsOf(transactions), p \in PaymentAmounts :
          (/\ StatusOf(transactions, tx_id) \in Terminal
           /\ CompleteTransaction(tx_id, p))
          => (/\ last'.ret = "False"
              /\ transactions' = transactions
              /\ escrow' = escrow)]_vars

\* C2: fail_transaction on a transaction that is not pending returns False
\* and changes neither file.
C2_FailOnTerminalRejected ==
    [][\A tx_id \in TxIdsOf(transactions) :
          (/\ StatusOf(transactions, tx_id) \in Terminal
           /\ FailTransaction(tx_id))
          => (/\ last'.ret = "False"
              /\ transactions' = transactions
              /\ escrow' = escrow)]_vars

\* C3: no two distinct completed transactions share (cid, buyer).
C3_CompletedPairUnique ==
    \A i, j \in 1..Len(transactions) :
        (/\ i # j
         /\ transactions[i].status = "completed"
         /\ transactions[j].status = "completed")
        => <<transactions[i].cid, transactions[i].buyer>>
              # <<transactions[j].cid, transactions[j].buyer>>

\* C4: a purchase for a pair (cid, buyer) that has a completed transaction
\* is rejected, and adds nothing to the transactions file or the escrow file.
C4_PurchasedPairRejected ==
    [][\A pair \in PurchasePairs, amount \in Amounts :
          (/\ CompletedExists(transactions, pair[1], pair[2])
           /\ InitiatePurchase(pair[1], pair[2], amount))
          => (/\ last'.ret # "200"
              /\ transactions' = transactions
              /\ escrow' = escrow)]_vars

\* a purchase has just been rejected as already purchased
C4_Witness ==
    /\ last.op = "initiate_purchase"
    /\ last.ret = "400 Dataset already purchased by this user"
    /\ \E pair \in PurchasePairs :
          CompletedExists(transactions, pair[1], pair[2])

\* C5: once is_dataset_purchased(cid, buyer) is true it is true in every
\* later state.
C5_PurchasedForever ==
    [][\A pair \in PurchasePairs :
          is_dataset_purchased(transactions, pair[1], pair[2])
          => is_dataset_purchased(transactions', pair[1], pair[2])]_vars

\* C9: a record with escrow_released = True has status completed.
C9_ReleasedOnlyCompleted ==
    \A i \in 1..Len(transactions) :
        transactions[i].escrow_released
        => transactions[i].status = "completed"

\* C10: complete_transaction with payment_amount <= 0 returns False and
\* changes neither file, whatever tx_id is.
C10_NonPositivePaymentRejected ==
    [][\A tx_id \in TxIdArgs, p \in PaymentAmounts :
          (p <= 0 /\ CompleteTransaction(tx_id, p))
          => (/\ last'.ret = "False"
              /\ transactions' = transactions
              /\ escrow' = escrow)]_vars

\* a payment of at most 0 has just been refused while a transaction is
\* pending
C10_Witness ==
    /\ last.op = "complete_transaction"
    /\ last.payment_amount <= 0
    /\ last.ret = "False"
    /\ \E i \in 1..Len(transactions) : transactions[i].status = "pending"

\* ------------------------------------------ further claims under Spec
\* C11: complete_transaction(tx_id, p) on a pending transaction with p > 0
\* returns True, and afterwards the transaction is completed with
\* escrow_released = True, its escrow entry is released, and
\* is_dataset_purchased(cid, buyer) is True.
C11_CompletePendingSucceeds ==
    [][\A tx_id \in TxIdsOf(transactions), p \in PaymentAmounts :
          (/\ p > 0
           /\ StatusOf(transactions, tx_id) = "pending"
           /\ CompleteTransaction(tx_id, p))
          => LET tx == get_transaction(transactions', tx_id)
             IN  /\ last'.ret = "True"
                 /\ tx.status = "completed"
                 /\ tx.escrow_released
                 /\ tx_id \in DOMAIN escrow'
                 /\ escrow'[tx_id].status = "released"
                 /\ CompletedExists(transactions', tx.cid, tx.buyer)
                 /\ is_dataset_purchased(transactions', tx.cid, tx.buyer)]_vars

\* a payment has just completed a transaction
C11_Witness ==
    /\ last.op = "complete_transaction"
    /\ last.payment_amount > 0
    /\ last.ret = "True"
    /\ \E i \in 1..Len(transactions) :
          /\ transactions[i].status = "completed"
          /\ transactions[i].failed_at = NoTime
          /\ escrow[transactions[i].tx_id].status = "released"

\* the record a purchase appends and the escrow entry filed with it
NewRecordFiled(txs, esc) ==
    LET tx == txs[Len(txs)]
    IN  /\ tx.status = "pending"
        /\ tx.escrow_released = FALSE
        /\ tx.tx_id \in DOMAIN esc
        /\ esc[tx.tx_id].status = "held"

\* C12: after every create_transaction, called one at a time, the new
\* record is stored pending with escrow_released = False, an escrow entry
\* with status held is stored under the same tx_id, and between calls the
\* tx_ids of the transactions file are the keys of the escrow file.
C12_CreateFilesBoth ==
    /\ [](TxIdsOf(transactions) = DOMAIN escrow)
    /\ [][\A pair \in PurchasePairs, amount \in Amounts :
             (/\ InitiatePurchase(pair[1], pair[2], amount)
              /\ last'.ret = "200")
             => (/\ Len(transactions') = Len(transactions) + 1
                 /\ SubSeq(transactions', 1, Len(transactions))
                        = transactions
                 /\ NewRecordFiled(transactions', escrow'))]_vars

\* a purchase has just created a transaction
C12_Witness ==
    /\ last.op = "initiate_purchase"
    /\ last.ret = "200"
    /\ Len(transactions) > 0
    /\ NewRecordFiled(transactions, escrow)

\* C14: the tx_ids of the records of the transactions file are pairwise
\* different, also those of two creations for the same (cid, buyer, amount)
\* at the same clock instant.
C14_TxIdsUnique ==
    \A i, j \in 1..Len(transactions) :
        i # j => transactions[i].tx_id # transactions[j].tx_id

\* the fields of a record that are fixed at creation
Identity(tx) == <<tx.tx_id, tx.cid, tx.buyer, tx.seller, tx.amount>>

\* C16: complete_transaction and fail_transaction leave tx_id, cid, buyer,
\* seller and amount of every record as they are.
C16_IdentityFieldsKept ==
    [][(\/ \E tx_id \in TxIdArgs, p \in PaymentAmounts :
              CompleteTransaction(tx_id, p)
        \/ \E tx_id \in TxIdArgs : FailTransaction(tx_id))
       => (/\ Len(transactions') = Len(transactions)
           /\ \A i \in 1..Len(transactions) :
                 Identity(transactions'[i]) = Identity(transactions[i]))]_vars

\* a transaction has been completed and one has been failed
C16_Witness ==
    /\ last.op \in {"complete_transaction", "fail_transaction"}
    /\ last.ret = "True"
    /\ \E i \in 1..Len(transactions) : transactions[i].status = "failed"
    /\ \E i \in 1..Len(transactions) : transactions[i].status = "completed"

\* C17: is_dataset_purchased(cid, buyer) is True exactly when the
\* transactions file has a record with that cid, that buyer and status
\* completed.
C17_PurchasedIffCompleted ==
    \A cid \in Cids, buyer \in Buyers :
        is_dataset_purchased(transactions, cid, buyer)
        <=> \E i \in 1..Len(transactions) :
               /\ transactions[i].cid = cid
               /\ transactions[i].buyer = buyer
               /\ transactions[i].status = "completed"

\* a buyer has a pending or failed record only, for a dataset, while the
\* other buyer has completed a purchase of the other dataset
C17_Witness ==
    \E i, j \in 1..Len(transactions) :
        /\ transactions[i].status = "completed"
        /\ transactions[j].status # "completed"
        /\ transactions[j].cid # transactions[i].cid
        /\ transactions[j].buyer # transactions[i].buyer
        /\ ~is_dataset_purchased(transactions, transactions[j].cid,
                                 transactions[j].buyer)
        /\ ~is_dataset_purchased(transactions, transactions[i].cid,
                                 transactions[j].buyer)

\* C19: complete_transaction and fail_transaction with a tx_id that no
\* record has return False and change neither file.
C19_UnknownTxIdRejected ==
    [][\A tx_id \in TxIdArgs :
          (/\ ~HasTx(transactions, tx_id)
           /\ \/ \E p \in PaymentAmounts : CompleteTransaction(tx_id, p)
              \/ FailTransaction(tx_id))
          => (/\ last'.ret = "False"
              /\ transactions' = transactions
              /\ escrow' = escrow)]_vars

\* fail_transaction has just refused a tx_id while the ledger holds records
C19_Witness ==
    /\ last.op = "fail_transaction"
    /\ last.ret = "False"
    /\ Len(transactions) > 0

\* ---------------------------------------------- claims under SpecConc
AllIdle == \A p \in Procs : procs[p].pc = "idle"

\* C6: in every state a reader of the two files can observe, no transaction
\* with status completed or failed has an escrow entry with status held.
C6_NoHeldEscrowForTerminal ==
    \A i \in 1..Len(transactions) :
        (/\ transactions[i].status \in Terminal
         /\ transactions[i].tx_id \in DOMAIN escrow)
        => escrow[transactions[i].tx_id].status # "held"

\* C7: when the handlers that worked on the one transaction of the ledger
\* have all finished, its escrow entry mirrors it: completed goes with
\* released, failed goes with refunded.
C7_EscrowMirrorsAfterInterleaving ==
    (/\ AllIdle
     /\ Len(transactions) = 1
     /\ transactions[1].tx_id \in DOMAIN escrow)
    => LET tx == transactions[1]
           e == escrow[tx.tx_id]
       IN  /\ tx.status = "completed" => e.status = "released"
           /\ tx.status = "failed" => e.status = "refunded"

\* C8: while every handler in progress works on the same tx_id, the status
\* of that transaction, once completed or failed, does not change again.
C8_StatusChangesAtMostOnce ==
    [][\A tx_id \in TxIdsOf(transactions) :
          (/\ \A p \in Procs :
                 procs[p].pc # "idle" => procs[p].tx_id = tx_id
           /\ HasTx(transactions', tx_id)
           /\ StatusOf(transactions, tx_id) \in Terminal)
          => StatusOf(transactions', tx_id) = StatusOf(transactions, tx_id)]_vars

\* C13: a step of a handler that works on one transaction leaves the
\* record and the escrow entry of every other transaction as the calls on
\* that transaction left them; nothing a finished call stored is lost to
\* the load-modify-save of another call.
C13_OtherCallsKeepRecord ==
    [][\A self \in Procs, tx_id \in TxIdsOf(transactions) :
          (/\ procs[self].pc # "idle"
           /\ procs'[self] # procs[self]
           /\ procs[self].tx_id # tx_id)
          => (/\ HasTx(transactions', tx_id)
              /\ get_transaction(transactions', tx_id)
                    = get_transaction(transactions, tx_id)
              /\ tx_id \in DOMAIN escrow
                    => (/\ tx_id \in DOMAIN escrow'
                        /\ escrow'[tx_id] = escrow[tx_id]))]_vars

\* ---------------------------------------------- claims under SpecFault
\* C15: when one of the two writes of create_transaction fails, the call
\* reports failure, and for the tx_id it was creating the files hold neither
\* a record without an escrow entry nor an escrow entry without a record.
C15_FailedCreateLeavesNoHalf ==
    [][\A pair \in PurchasePairs, amount \in Amounts, at \in LedgerWrites :
          InitiatePurchaseWriteFails(pair[1], pair[2], amount, at)
          => LET tx_id == generate_tx_id(pair[1], pair[2], amount, now)
             IN  /\ last'.ret = "500 Purchase initiation failed"
                 /\ HasTx(transactions', tx_id)
                       <=> tx_id \in DOMAIN escrow']_vars

\* ------------------------------------------- claims under SpecDownload
\* the metadata of cid gives a price above 0
Priced(mds, cid) ==
    has_download_metadata(mds, cid) /\ download_metadata(mds, cid).price > 0

\* C18: a download of a stored, priced object is answered with its bytes
\* only when the request names a buyer who has a completed transaction for
\* the object; with no buyer, or a buyer without one, it is refused.
C18_PricedDownloadNeedsPurchase ==
    [][\A cid \in Cids, buyer \in DownloadBuyers :
          (/\ Priced(metadata, cid)
           /\ exists(datasets, cid)
           /\ ~CompletedExists(transactions, cid, buyer)
           /\ DownloadDataset(cid, buyer))
          => last'.ret # "200"]_vars

\* ---------------------------------------------- claims under SpecStore
\* C20: store_file returns the same id for the same bytes: when the bytes
\* it stores are already held under an id, whatever metadata, clock and
\* other files they were stored with, that id is the one it returns.
C20_SameBytesSameId ==
    [][last'.op = "store_file"
       => \A cid \in DOMAIN datasets :
             (/\ last'.ret \in DOMAIN datasets'
              /\ datasets[cid] = datasets'[last'.ret])
             => last'.ret = cid]_vars

\* a file has just been stored at the later instant, into a store that
\* holds another file from the earlier instant, and the id returned is the
\* digest of its bytes
C20_Witness ==
    /\ last.op = "store_file"
    /\ last.ret \in DOMAIN metadata
    /\ last.ret \in DOMAIN datasets
    /\ last.ret = compute_cid(datasets[last.ret])
    /\ metadata[last.ret].stored_at = 1
    /\ \E cid \in DOMAIN metadata :
          cid # last.ret /\ metadata[cid].stored_at = 0

\* ------------------------------------- further claims under SpecStore
\* C21: retrieve_file(store_file(B, M)) returns exactly B, and goes on
\* returning it after every later call, stores of the same or of other
\* bytes included, until delete_file is called on that id.
C21_RetrieveReturnsStored ==
    [][/\ \A b \in Blobs, md \in Metadatas :
             StoreFile(b, md)
             => retrieve_answer(datasets', last'.ret) = hex(b)
       /\ \A cid \in DOMAIN datasets :
             ~DeleteFile(cid)
             => retrieve_answer(datasets', cid)
                   = retrieve_answer(datasets, cid)
       /\ \A cid \in DOMAIN datasets :
             RetrieveFile(cid) => last'.ret = hex(datasets[cid])]_vars

\* the bytes stored at the earlier instant have just been retrieved, after
\* the other blob was stored at the later instant
C21_Witness ==
    /\ last.op = "retrieve_file"
    /\ last.ret = hex(<<1>>)
    /\ compute_cid(<<1>>) \in DOMAIN metadata
    /\ metadata[compute_cid(<<1>>)].stored_at = 0
    /\ compute_cid(<<1, 2>>) \in DOMAIN metadata
    /\ metadata[compute_cid(<<1, 2>>)].stored_at = 1

\* C22: store_file on bytes the store already holds returns the id they are
\* held under, leaves one .bin and one .json file for the id, so that
\* get_storage_stats reports the same number of files and the same total
\* size as before, and the metadata is that of this call.
C22_RestoreIsIdempotent ==
    [][\A cid \in DOMAIN datasets, md \in Metadatas :
          StoreFile(datasets[cid], md)
          => (/\ last'.ret = cid
              /\ DOMAIN datasets' = DOMAIN datasets
              /\ DOMAIN metadata' = DOMAIN metadata \cup {cid}
              /\ get_storage_stats(datasets') = get_storage_stats(datasets)
              /\ metadata'[cid] =
                    [price |-> md.price, uploader |-> md.uploader,
                     cid |-> cid, file_size |-> Len(datasets[cid]),
                     stored_at |-> now])]_vars

\* a store has just returned an id while both blobs are held, and the
\* metadata under that id carries the later instant and a price
C22_Witness ==
    /\ last.op = "store_file"
    /\ get_storage_stats(datasets).total_files = 2
    /\ get_storage_stats(datasets).total_size_bytes = 3
    /\ last.ret \in DOMAIN metadata
    /\ metadata[last.ret].stored_at = 1
    /\ metadata[last.ret].price = 5000
    /\ \A cid \in DOMAIN metadata : cid # last.ret
          => metadata[cid].stored_at = 1

\* retrieve_file and get_metadata answer None for cid, and list_all_cids
\* does not list it
Gone(ds, mds, cid) ==
    /\ retrieve_answer(ds, cid) = "None"
    /\ metadata_answer(mds, cid) = "None"
    /\ cid \notin list_all_cids(mds)

\* C25: after delete_file(cid), retrieve_file(cid) and get_metadata(cid)
\* answer None and list_all_cids() does not hold cid, until bytes with that
\* digest are stored again.
C25_DeletedIsGone ==
    [][/\ \A cid \in Cids : DeleteFile(cid) => Gone(datasets', metadata', cid)
       /\ \A cid \in StoreCids :
             (/\ Gone(datasets, metadata, cid)
              /\ ~\E b \in Blobs, md \in Metadatas :
                     compute_cid(b) = cid /\ StoreFile(b, md))
             => Gone(datasets', metadata', cid)]_vars

\* a delete has just removed a stored object
C25_Witness ==
    /\ last.op = "delete_file"
    /\ last.ret = "True"
    /\ \E cid \in StoreCids : Gone(datasets, metadata, cid)

\* C28: retrieve_file and get_metadata on a cid the store does not hold
\* (never stored, or deleted) answer None and leave the store as it is.
C28_UnknownIdIsNone ==
    [][\A cid \in StoreCids :
          /\ (~exists(datasets, cid) /\ RetrieveFile(cid))
             => (/\ last'.ret = "None"
                 /\ datasets' = datasets
                 /\ metadata' = metadata)
          /\ (~exists(metadata, cid) /\ GetMetadata(cid))
             => (/\ last'.ret = "None"
                 /\ datasets' = datasets
                 /\ metadata' = metadata)]_vars

\* retrieve_file has just answered None while the store holds another file
C28_Witness ==
    /\ last.op = "retrieve_file"
    /\ last.ret = "None"
    /\ DOMAIN datasets # {}

\* --------------------------------------------- claims under SpecTamper
\* the blob whose digest is cid
BlobOf(cid) == CHOOSE b \in Blobs : compute_cid(b) = cid

\* C27: verify_integrity(cid) is True right after store_file returned cid,
\* False once the bytes of the blob were changed to bytes with another
\* digest, and False for a cid with no blob.
C27_IntegrityTracksBytes ==
    [][/\ \A b \in Blobs, md \in Metadatas :
             StoreFile(b, md) => verify_integrity(datasets', last'.ret)
       /\ \A cid \in StoreCids, data_bytes \in TamperedBytes :
             (Corrupt(cid, data_bytes) /\ data_bytes # BlobOf(cid))
             => ~verify_integrity(datasets', cid)
       /\ \A cid \in StoreCids :
             VerifyIntegrity(cid)
             => last'.ret = Bool(/\ cid \in DOMAIN datasets
                                 /\ datasets[cid] = BlobOf(cid))]_vars

\* verify_integrity has just answered False while every blob is there, one
\* of them with changed bytes
C27_Witness ==
    /\ last.op = "verify_integrity"
    /\ last.ret = "False"
    /\ DOMAIN datasets = StoreCids
    /\ \E cid \in StoreCids : datasets[cid] # BlobOf(cid)

\* ----------------------------------------- claims under SpecStoreFault
\* C24: when a write inside store_file fails, the call fails and no
\* metadata record is left whose cid has no retrievable blob with that
\* digest, on a first store of the cid and on a store of a cid already held.
C24_FailedStoreLeavesNoOrphan ==
    [][\A file_bytes \in Blobs, md \in Metadatas, at \in StoreWrites :
          \A written \in Prefixes(file_bytes) :
              StoreFileWriteFails(file_bytes, md, at, written)
              => (/\ last'.ret = "raise OSError"
                  /\ \A cid \in DOMAIN metadata' :
                        /\ retrieve_answer(datasets', cid) # "None"
                        /\ compute_cid(datasets'[cid]) = cid)]_vars

\* C26: delete_file(cid) returns True exactly when a blob or a metadata
\* record for cid was there, and False otherwise; it leaves neither, so a
\* second delete of the cid returns False and changes nothing.
C26_DeleteReportsRemoval ==
    [][\A cid \in Cids :
          DeleteFile(cid)
          => (/\ last'.ret = Bool(cid \in DOMAIN datasets
                                  \/ cid \in DOMAIN metadata)
              /\ cid \notin DOMAIN datasets'
              /\ cid \notin DOMAIN metadata'
              /\ (cid \notin DOMAIN datasets /\ cid \notin DOMAIN metadata)
                    => (/\ last'.ret = "False"
                        /\ datasets' = datasets
                        /\ metadata' = metadata))]_vars

\* a delete has just answered True and left the store empty
C26_Witness ==
    /\ last.op = "delete_file"
    /\ last.ret = "True"
    /\ DOMAIN datasets = {}
    /\ DOMAIN metadata = {}

\* ------------------------------------------ claims under SpecStoreConc
\* C23: in every state a concurrent reader can observe, when
\* get_metadata(cid) returns a record, retrieve_file(cid) returns the blob.
C23_MetadataImpliesBlob ==
    \A cid \in StoreCids :
        metadata_answer(metadata, cid) # "None"
        => retrieve_answer(datasets, cid) # "None"

\* both workers are inside store_file with the bytes of cid
BothStoring(cid) ==
    \A p \in Procs : procs[p].pc \in StorePcs /\ procs[p].cid = cid

\* C29: while the two workers store the same bytes, retrieve_file(cid)
\* returns None or the complete bytes, never a truncated blob.
C29_NoPartialBlobWhileStoring ==
    \A cid \in StoreCids :
        BothStoring(cid)
        => retrieve_answer(datasets, cid) \in {"None", hex(BlobOf(cid))}

\* the .bin file and the .json file of cid
Entry(ds, mds, cid) ==
    <<IF exists(ds, cid) THEN hex(ds[cid]) ELSE "None",
      IF exists(mds, cid) THEN {mds[cid]} ELSE {}>>

\* the cid the worker that takes the step works on
ActingCid(self) ==
    IF procs[self].pc = "idle" THEN procs'[self].cid ELSE procs[self].cid

\* C30: every step of store_file and of delete_file leaves the blob and the
\* metadata record of every cid other than its own as they are, however the
\* steps of the two workers interleave.
C30_OtherIdsUntouched ==
    [][\A self \in Procs, cid \in StoreCids :
          (/\ procs'[self].pc # procs[self].pc
           /\ cid # ActingCid(self))
          => Entry(datasets', metadata', cid)
                = Entry(datasets, metadata, cid)]_vars

\* one worker is half way through delete_file on one cid while the other is
\* half way through store_file on the other cid, whose blob is written
C30_Witness ==
    \E p, q \in Procs :
        /\ procs[p].pc = "delete_metadata"
        /\ procs[q].pc = "store_write_metadata"
        /\ procs[p].cid # procs[q].cid
        /\ procs[p].deleted
        /\ exists(datasets, procs[q].cid)
        /\ exists(metadata, procs[p].cid)

\* ------------------------------------------ more claims under Spec
\* the records of (cid, buyer) that have the status
CountOf(txs, cid, buyer, status) ==
    Cardinality({i \in 1..Len(txs) :
                    /\ txs[i].cid = cid
                    /\ txs[i].buyer = buyer
                    /\ txs[i].status = status})

\* C34: a purchase of an object that is found, at an amount that covers its
\* price, for a pair (cid, buyer) with no completed transaction, succeeds
\* and files one more pending record, however many pending or failed
\* records the pair already has.
C34_PendingPurchasesUncapped ==
    [][\A pair \in PurchasePairs, amount \in Amounts :
          (/\ InitiatePurchase(pair[1], pair[2], amount)
           /\ has_purchase_metadata(metadata, pair[1])
           /\ amount >= purchase_metadata(metadata, pair[1]).price
           /\ ~CompletedExists(transactions, pair[1], pair[2]))
          => (/\ last'.ret = "200"
              /\ Len(transactions') = Len(transactions) + 1
              /\ CountOf(transactions', pair[1], pair[2], "pending")
                    = CountOf(transactions, pair[1], pair[2], "pending") + 1
              /\ transactions'[Len(transactions')].tx_id
                    \in DOMAIN escrow')]_vars

\* a purchase has just succeeded for a pair that already had a pending
\* record
C34_Witness ==
    /\ last.op = "initiate_purchase"
    /\ last.ret = "200"
    /\ \E pair \in PurchasePairs :
          CountOf(transactions, pair[1], pair[2], "pending") >= 2

\* C36: a purchase of an object that has no metadata, or at an amount below
\* the object's price, is rejected and changes neither ledger file; a
\* purchase that files a record files one whose amount is at least the
\* price.
C36_PurchaseNeedsObjectAndPrice ==
    [][\A pair \in PurchasePairs, amount \in Amounts :
          InitiatePurchase(pair[1], pair[2], amount)
          => /\ ~has_purchase_metadata(metadata, pair[1])
                => (/\ last'.ret = "404 Dataset not found"
                    /\ transactions' = transactions
                    /\ escrow' = escrow)
             /\ (/\ has_purchase_metadata(metadata, pair[1])
                 /\ amount < purchase_metadata(metadata, pair[1]).price)
                => (/\ last'.ret = "400 Insufficient payment"
                    /\ transactions' = transactions
                    /\ escrow' = escrow)
             /\ transactions' # transactions
                => (/\ has_purchase_metadata(metadata, pair[1])
                    /\ transactions'[Len(transactions')].amount
                          >= purchase_metadata(metadata, pair[1]).price)]_vars

\* a purchase below the price has just been rejected, after one at the
\* price was filed
C36_Witness ==
    /\ last.op = "initiate_purchase"
    /\ last.ret = "400 Insufficient payment"
    /\ Len(transactions) > 0
    /\ \A i \in 1..Len(transactions) :
          transactions[i].amount >= seed_dataset(transactions[i].cid).price

\* C37: complete_transaction(tx_id, p) on a pending transaction with
\* 0 < p < the recorded amount returns True, completes the transaction and
\* releases its escrow entry: the payment is not compared with the amount.
C37_PaymentBelowAmountCompletes ==
    [][\A tx_id \in TxIdsOf(transactions), p \in PaymentAmounts :
          (/\ CompleteTransaction(tx_id, p)
           /\ StatusOf(transactions, tx_id) = "pending"
           /\ p > 0
           /\ p < get_transaction(transactions, tx_id).amount)
          => (/\ last'.ret = "True"
              /\ StatusOf(transactions', tx_id) = "completed"
              /\ escrow'[tx_id].status = "released"
              /\ escrow'[tx_id].released)]_vars

\* a payment smaller than the recorded amount has just completed a
\* transaction
C37_Witness ==
    /\ last.op = "complete_transaction"
    /\ last.ret = "True"
    /\ last.payment_amount > 0
    /\ \E i \in 1..Len(transactions) :
          /\ transactions[i].status = "completed"
          /\ transactions[i].completed_at = now
          /\ transactions[i].amount > last.payment_amount
          /\ escrow[transactions[i].tx_id].released

\* the sum of the amounts of the records at the indices
RECURSIVE AmountsOf(_, _)
AmountsOf(txs, indices) ==
    IF indices = {} THEN 0
    ELSE LET i == CHOOSE j \in indices : TRUE
         IN  txs[i].amount + AmountsOf(txs, indices \ {i})

\* C38: after every sequence of ledger calls, get_ledger_stats reports
\* total = completed + pending + failed, as many held escrow entries as
\* pending transactions, and a total volume that is the sum of the amounts
\* of the completed transactions.
C38_LedgerStatsAgree ==
    LET stats == get_ledger_stats(transactions, escrow)
    IN  /\ stats.total_transactions
              = stats.completed_transactions + stats.pending_transactions
                + stats.failed_transactions
        /\ stats.active_escrow_count = stats.pending_transactions
        /\ stats.total_volume
              = AmountsOf(transactions,
                          {i \in 1..Len(transactions) :
                              transactions[i].status = "completed"})

\* ------------------------------------------- claims under SpecSupplied
\* the keys store_file computes itself
StoreKeys == {"cid", "file_size", "stored_at"}

\* C33: after store_file(file_bytes, md), get_metadata(cid) holds every key
\* of md, with md's value for each key the store does not compute, and
\* holds cid = the digest and file_size = the length of the bytes, also
\* when md supplies "cid" or "file_size" itself.
C33_MetadataExtendsSupplied ==
    [][\A file_bytes \in Blobs, md \in SuppliedMetadatas :
          StoreFile(file_bytes, md)
          => LET cid == compute_cid(file_bytes)
                 rec == get_metadata(metadata', cid)
             IN  /\ metadata_answer(metadata', cid) = "dict"
                 /\ DOMAIN md \subseteq DOMAIN rec
                 /\ \A k \in DOMAIN md \ StoreKeys : rec[k] = md[k]
                 /\ rec.cid = cid
                 /\ rec.file_size = Len(file_bytes)]_vars

\* a store whose metadata supplied its own cid and file_size has returned
C33_Witness ==
    /\ last.op = "store_file"
    /\ exists(metadata, last.ret)
    /\ get_metadata(metadata, last.ret).title = "supplies cid"
    /\ get_metadata(metadata, last.ret).cid = last.ret

\* --------------------------------------------- claims under SpecMarket
\* C31: no call of the ledger (purchase, complete_transaction,
\* fail_transaction) changes a .bin or a .json file of the store, and no
\* call of the store (store_file, delete_file, also of an object that has
\* completed transactions) changes the transactions file or the escrow file.
C31_StoreAndLedgerApart ==
    [][/\ (\/ \E pair \in MarketPairs, amount \in StoreAmounts :
                 InitiatePurchase(pair[1], pair[2], amount)
           \/ \E tx_id \in TxIdArgs, p \in StorePaymentAmounts :
                 CompleteTransaction(tx_id, p)
           \/ \E tx_id \in TxIdArgs : FailTransaction(tx_id))
          => (datasets' = datasets /\ metadata' = metadata)
       /\ (\/ \E file_bytes \in MarketBlobs, md \in MarketMetadatas :
                 StoreFile(file_bytes, md)
           \/ \E cid \in StoreCids : DeleteFile(cid))
          => (transactions' = transactions /\ escrow' = escrow)]_vars

\* an object that has a completed transaction has just been deleted, and
\* the record and its escrow entry are still there
C31_Witness ==
    /\ last.op = "delete_file"
    /\ last.ret = "True"
    /\ \E i \in 1..Len(transactions) :
          /\ transactions[i].status = "completed"
          /\ ~exists(datasets, transactions[i].cid)
          /\ ~exists(metadata, transactions[i].cid)
          /\ transactions[i].tx_id \in DOMAIN escrow

\* --------------------------------------------- claims under SpecRoutes
\* C35: /pay on a pending transaction with payment_amount <= 0 leaves the
\* transaction failed and its escrow entry refunded, and answers with an
\* error; /pay or /cancel on a transaction that get_transaction shows as not
\* pending answers with an error and changes neither ledger file.
C35_PayAndCancelErrors ==
    [][\A tx_id \in TxIdsOf(transactions) :
          /\ \A p \in PaymentAmounts :
                (/\ CompletePayment(tx_id, p)
                 /\ StatusOf(transactions, tx_id) = "pending"
                 /\ p <= 0)
                => (/\ StatusOf(transactions', tx_id) = "failed"
                    /\ tx_id \in DOMAIN escrow'
                    /\ escrow'[tx_id].status = "refunded"
                    /\ last'.ret = "400 Payment verification failed")
          /\ \A p \in PaymentAmounts :
                (/\ CompletePayment(tx_id, p)
                 /\ StatusOf(transactions, tx_id) # "pending")
                => (/\ last'.ret = "400 Transaction is not pending"
                    /\ transactions' = transactions
                    /\ escrow' = escrow)
          /\ (/\ CancelTransaction(tx_id)
              /\ StatusOf(transactions, tx_id) # "pending")
             => (/\ last'.ret = "400 Cannot cancel transaction"
                 /\ transactions' = transactions
                 /\ escrow' = escrow)]_vars

\* /pay has just answered a payment that is not positive, and the
\* transaction it named is failed with its escrow refunded
C35_Witness ==
    /\ last.op = "pay"
    /\ last.payment_amount <= 0
    /\ last.ret = "400 Payment verification failed"
    /\ \E i \in 1..Len(transactions) :
          /\ transactions[i].status = "failed"
          /\ transactions[i].failure_reason = "Payment verification failed"
          /\ escrow[transactions[i].tx_id].status = "refunded"

\* ----------------------------------------- a further claim under SpecStore
\* C39: after every sequence of store_file and delete_file calls,
\* get_storage_stats counts as many .bin files as list_all_cids returns
\* cids, and retrieve_file returns a blob for every listed cid.
C39_StatsMatchListing ==
    /\ get_storage_stats(datasets).total_files
          = Cardinality(list_all_cids(metadata))
    /\ \A cid \in list_all_cids(metadata) :
          retrieve_answer(datasets, cid) # "None"

\* a delete has just removed one of two stored objects
C39_Witness ==
    /\ last.op = "delete_file"
    /\ last.ret = "True"
    /\ get_storage_stats(datasets).total_files = 1
    /\ Cardinality(list_all_cids(metadata)) = 1

\* ----------------------------------------------- a claim under SpecLive
\* C32: a worker that is inside a handler of the ledger or inside
\* store_file or delete_file answers sooner or later and is idle again,
\* whatever the other worker does meanwhile.
C32_EveryCallReturns ==
    \A self \in Procs :
        (procs[self].pc # "idle") ~> (procs[self].pc = "idle")

\* one worker is inside /pay or /cancel while the other is inside
\* store_file or delete_file
C32_Witness ==
    \E p, q \in Procs :
        /\ procs[p].handler \in {"pay", "cancel"}
        /\ procs[p].pc # "idle"
        /\ procs[q].handler = "store"
        /\ procs[q].pc # "idle"

====
